---- MODULE Spec2Model ----
(***************************************************************************)
(* The theme-preference subsystem of t-labs: the pub/sub PreferencesStore  *)
(* (src/lib/preferences-store.ts), the DOM and cookie helpers              *)
(* (theme-utils), the server-side cookie resolution and the                *)
(* PreferencesProvider component that ties them together on the client.    *)
(*                                                                         *)
(* JavaScript runs one handler at a time.  A handler that calls into the   *)
(* store is modelled by a call stack: a top-level action (a setter, the    *)
(* provider's effect) pushes frames, the frames are run to completion one  *)
(* listener call at a time, and no other top-level action is enabled       *)
(* until the stack is empty again.                                         *)
(***************************************************************************)
EXTENDS Naturals, Sequences, FiniteSets

\* ------------------------------------------------------------------ bounds
\* Subscriptions made by store clients other than the provider.
MaxSubs == 2
\* Nesting depth of setState calls (1 = no listener re-enters setState).
MaxDepth == 2
\* Cookies of other names in the document's cookie header.
MaxForeign == 2
\* Spaces in front of an entry of the cookie header.
MaxSpaces == 1
\* The clock, in seconds, at the moments cookies are written: 0..MaxNow.
MaxNow == 1
\* How often one unsubscribe function is invoked.
MaxUnsubCalls == 2
\* Runs of the provider's effect (the mount run and the re-runs).
MaxEffectRuns == 2
MaxUpdates == 4

\* ------------------------------------------------------------- data model
ThemeModes == {"light", "dark"}
ThemePresets == {"default", "brutalist", "soft-pop", "tangerine"}
DEFAULT_THEME_PREFERENCES == [mode |-> "light", preset |-> "default"]
ThemePreferences == [mode : ThemeModes, preset : ThemePresets]

\* A field that a Partial<ThemePreferences> does not carry.
NotGiven == "<not given>"
\* A cookie that the jar does not hold, and the null of getValueFromCookie.
Absent == "<absent>"
Null == "<null>"

\* The values the setters are called with in the model.
ArgModes == ThemeModes
ArgPresets == {"default", "tangerine"}
\* The theme cookies the browser may hold when the page is requested.
JarModes == {Absent, "", "dark", "purple"}
JarPresets == {Absent, "brutalist"}
\* The times new Date() may give.
Times == 0..MaxNow

\* Cookies of other names a document may hold: their names and values.
ForeignNames == {<<"a">>, <<"a", "b">>}
ForeignValues == {<<>>, <<"1">>}
Entries == [name : ForeignNames, value : ForeignValues, spaces : 0..MaxSpaces]
EntryLists == UNION {[1..n -> Entries] : n \in 0..MaxForeign}

\* Callbacks of the store's other clients; each is one function object.
ClientFns == {<<"A", 0>>, <<"B", 0>>}

\* ------------------------------------------------------- pure operations
\* { ...this.state, ...newState }
MergeDroppingRest(s, p) ==
    [mode   |-> IF p.mode = NotGiven THEN DEFAULT_THEME_PREFERENCES.mode ELSE p.mode,
     preset |-> IF p.preset = NotGiven THEN DEFAULT_THEME_PREFERENCES.preset ELSE p.preset]

MergeFirstFieldOnly(s, p) ==
    [mode   |-> IF p.mode = NotGiven THEN s.mode ELSE p.mode,
     preset |-> IF p.preset = NotGiven \/ p.mode # NotGiven THEN s.preset ELSE p.preset]

Merge(s, p) ==
    [mode   |-> IF p.mode = NotGiven THEN s.mode ELSE p.mode,
     preset |-> IF p.preset = NotGiven THEN s.preset ELSE p.preset]

\* The fields a partial carries.
Fields(p) == {f \in {"mode", "preset"} : p[f] # NotGiven}

\* updateThemeMode: classList.add("dark") / classList.remove("dark").
updateThemeMode(d, mode) ==
    [d EXCEPT !.classes = IF mode = "dark" THEN @ \cup {"dark"} ELSE @ \ {"dark"}]

\* updateThemePreset: setAttribute("data-theme-preset", preset).
updateThemePreset(d, preset) == [d EXCEPT !.preset = preset]

updateThemeModeOnly(d, p) == updateThemeMode(d, p.mode)

updateTheme(d, p) == updateThemePreset(updateThemeMode(d, p.mode), p.preset)

\* ------------------------------------------------------------- cookies
\* A string that is scanned character by character is the sequence of its
\* characters; null is the one-element sequence <<Null>>.
Chars(s) ==
    CASE s = "" -> <<>>
      [] s = Null -> <<Null>>
      [] s = "light" -> <<"l", "i", "g", "h", "t">>
      [] s = "dark" -> <<"d", "a", "r", "k">>
      [] s = "purple" -> <<"p", "u", "r", "p", "l", "e">>
      [] s = "default" -> <<"d", "e", "f", "a", "u", "l", "t">>
      [] s = "brutalist" -> <<"b", "r", "u", "t", "a", "l", "i", "s", "t">>
      [] s = "soft-pop" -> <<"s", "o", "f", "t", "-", "p", "o", "p">>
      [] s = "tangerine" -> <<"t", "a", "n", "g", "e", "r", "i", "n", "e">>
      [] s = "theme-mode" -> <<"t", "h", "e", "m", "e", "-", "m", "o", "d", "e">>
      [] s = "theme-preset" -> <<"t", "h", "e", "m", "e", "-", "p", "r", "e", "s", "e", "t">>

KnownStrings == {"", Null, "light", "dark", "purple", "default", "brutalist", "soft-pop", "tangerine", "theme-mode", "theme-preset"}

\* The string that has the given characters.
Str(cs) ==
    IF \E s \in KnownStrings : Chars(s) = cs
    THEN CHOOSE s \in KnownStrings : Chars(s) = cs
    ELSE "<other>"

\* The names getValueFromCookie is called with.
LookupNames == {<<"a">>, <<"a", "b">>, <<"b">>, Chars("theme-mode"), Chars("theme-preset")}

\* The cookies the theme helpers write, in the order the browser lists them.
CookieNames == <<"theme-mode", "theme-preset">>

NoCookie == [value |-> Absent, created |-> 0, expires |-> 0, path |-> ""]

\* The default of the parameter days of setValueToCookie.
days == 365

\* expires.setTime(expires.getTime() + days * 24 * 60 * 60 * 1000) and
\* expires.toUTCString(): times are whole seconds, the resolution of the
\* cookie's expires attribute.
ExpiresInMinutes(now, d) == now + d * 24 * 60

Expires(now, d) == now + d * 24 * 60 * 60

\* document.cookie = `${name}=${value};expires=...;path=/` at time now: the
\* browser stores the cookie under its name and path, replacing the one it has.
setValueToCookie(jar, name, value, now) ==
    [jar EXCEPT !.cookies[name] =
        [value |-> value, created |-> now, expires |-> Expires(now, days),
         path |-> "/"]]

\* The entries of s between the occurrences of sep: s.split(sep).
Split(s, sep) ==
    LET at == {i \in 1..Len(s) : s[i] = sep}
        \* the position of the k-th separator; 0 and Len(s) + 1 bound the string
        cut(k) == IF k = 0 THEN 0
                  ELSE IF k > Cardinality(at) THEN Len(s) + 1
                  ELSE CHOOSE i \in at : Cardinality({j \in at : j < i}) = k - 1
    IN  [k \in 1..(Cardinality(at) + 1) |-> SubSeq(s, cut(k - 1) + 1, cut(k) - 1)]

\* while (c.charAt(0) === " ") c = c.substring(1)
StripLeadingSpaces(c) ==
    LET rest == {i \in 1..Len(c) : c[i] # " "}
    IN  IF rest = {} THEN <<>>
        ELSE SubSeq(c, CHOOSE i \in rest : \A j \in rest : i <= j, Len(c))

\* c.indexOf(prefix) === 0
StartsWith(c, prefix) ==
    /\ Len(c) >= Len(prefix)
    /\ SubSeq(c, 1, Len(prefix)) = prefix

ScanFromUnstripped(ca, nameEQ, i) ==
    IF \E j \in i..Len(ca) : StartsWith(ca[j], nameEQ)
    THEN LET j == CHOOSE j \in i..Len(ca) :
                      /\ StartsWith(ca[j], nameEQ)
                      /\ \A k \in i..(j - 1) : ~StartsWith(ca[k], nameEQ)
         IN  SubSeq(ca[j], Len(nameEQ) + 1, Len(ca[j]))
    ELSE Chars(Null)

\* The loop of getValueFromCookie over the entries ca from entry i on.
RECURSIVE ScanFrom(_, _, _)
ScanFrom(ca, nameEQ, i) ==
    IF i > Len(ca) THEN Chars(Null)
    ELSE LET c == StripLeadingSpaces(ca[i])
         IN  IF StartsWith(c, nameEQ) THEN SubSeq(c, Len(nameEQ) + 1, Len(c))
             ELSE ScanFrom(ca, nameEQ, i + 1)

\* getValueFromCookie(name) where document.cookie reads header.
ScanCookie(header, name) == ScanFrom(Split(header, ";"), name \o <<"=">>, 1)

\* An entry of a cookie header: spaces, then name=value.
Spaces(n) == [i \in 1..n |-> " "]
EntryText(e) == Spaces(e.spaces) \o e.name \o <<"=">> \o e.value

\* The header that lists the entries es, separated by ";".
RECURSIVE Header(_)
Header(es) ==
    IF es = <<>> THEN <<>>
    ELSE IF Len(es) = 1 THEN EntryText(es[1])
    ELSE EntryText(es[1]) \o <<";">> \o Header(Tail(es))

\* s1 + sep + s2 + ... of the strings in ss.
RECURSIVE Join(_, _)
Join(ss, sep) ==
    IF ss = <<>> THEN <<>>
    ELSE IF Len(ss) = 1 THEN ss[1]
    ELSE ss[1] \o sep \o Join(Tail(ss), sep)

\* The theme cookies the jar holds, as entries.
OwnEntries(jar) ==
    LET held == SelectSeq(CookieNames, LAMBDA n : jar.cookies[n].value # Absent)
    IN  [i \in 1..Len(held) |->
            [name |-> Chars(held[i]), value |-> Chars(jar.cookies[held[i]].value),
             spaces |-> 0]]

\* What reading document.cookie gives: the cookies of other names as the
\* header lists them (jar.other), then the theme cookies the jar holds, as
\* name=value separated by "; ".
DocumentCookie(jar) ==
    LET own == OwnEntries(jar)
    IN  Join((IF jar.other = <<>> THEN <<>> ELSE <<Header(jar.other)>>)
             \o [i \in 1..Len(own) |-> EntryText(own[i])], <<";", " ">>)

\* getValueFromCookie(name): null without a document, else the scan.
getValueFromCookieUnguarded(jar, name) == ScanCookie(DocumentCookie(jar), name)

getValueFromCookie(jar, name) ==
    IF ~jar.document THEN Chars(Null)
    ELSE ScanCookie(DocumentCookie(jar), name)

saveThemeModeOnly(jar, p, now) == setValueToCookie(jar, "theme-mode", p.mode, now)

saveThemePreferences(jar, p, now) ==
    setValueToCookie(setValueToCookie(jar, "theme-mode", p.mode, now),
                     "theme-preset", p.preset, now)

\* x || d of JavaScript for a string or null x.
OrElse(x, d) == IF x \in {Null, ""} THEN d ELSE x

loadThemePreferences(jar) ==
    [mode   |-> OrElse(Str(getValueFromCookie(jar, Chars("theme-mode"))), "light"),
     preset |-> OrElse(Str(getValueFromCookie(jar, Chars("theme-preset"))), "default")]

CookieStoreGetMissing(jar, name) == Null

\* cookieStore.get(name)?.value: the value of the request's cookie, if any.
CookieStoreGet(jar, name) ==
    IF jar.cookies[name].value = Absent THEN Null ELSE jar.cookies[name].value

getServerThemePreferencesAllOrNothing(jar) ==
    IF \E n \in DOMAIN jar.cookies : jar.cookies[n].value \in {Absent, ""}
    THEN DEFAULT_THEME_PREFERENCES
    ELSE [mode   |-> jar.cookies["theme-mode"].value,
          preset |-> jar.cookies["theme-preset"].value]

getServerThemePreferencesValidated(jar) ==
    [mode   |-> IF CookieStoreGet(jar, "theme-mode") \in ThemeModes
                THEN CookieStoreGet(jar, "theme-mode")
                ELSE DEFAULT_THEME_PREFERENCES.mode,
     preset |-> IF CookieStoreGet(jar, "theme-preset") \in ThemePresets
                THEN CookieStoreGet(jar, "theme-preset")
                ELSE DEFAULT_THEME_PREFERENCES.preset]

\* cookieStore.get(name)?.value || DEFAULT on the server.
getServerThemePreferences(jar) ==
    [mode   |-> OrElse(CookieStoreGet(jar, "theme-mode"),
                       DEFAULT_THEME_PREFERENCES.mode),
     preset |-> OrElse(CookieStoreGet(jar, "theme-preset"),
                       DEFAULT_THEME_PREFERENCES.preset)]

\* The jar of a browser that holds the theme cookies with values m and p.
Jar(m, p) ==
    [document |-> TRUE, other |-> <<>>,
     cookies  |-> [n \in {"theme-mode", "theme-preset"} |->
                      [NoCookie EXCEPT !.value = IF n = "theme-mode" THEN m ELSE p]]]

LayoutUnthemed(p) == [classes |-> {}, preset |-> DEFAULT_THEME_PREFERENCES.preset]

\* <html className={mode} data-theme-preset={preset}> of the server render.
Layout(p) == [classes |-> {p.mode}, preset |-> p.preset]


\* ------------------------------------------------------------------ state
VARIABLES
    state,              \* PreferencesStore.state
    listeners,          \* PreferencesStore.listeners: <<[id, fn], ...>>
    unsubs,             \* per registration id, the unsubscribe function subscribe
                        \* returned: [issued, fn (its listener), calls (so far)]
    stack,              \* the JavaScript call stack (frames of handlers in progress)
    lastSet,            \* per field, the value given by the last call that set it
    toggles,            \* the toggleTheme calls made in succession: how many, and
                        \* the store's state and the cookies before the first
    dom,                \* document.documentElement: [classes, preset]
    jar,                \* the browser: whether there is a document, and its cookies
    life,               \* the provider component: "unmounted" or "mounted"
    initialPreferences, \* the provider's initialPreferences prop
    rendered,           \* the provider's React state as last rendered
    pending,            \* the provider's React state after the queued updates
    effectPending,      \* the provider's effect is scheduled to run
    effectRuns,         \* how many times the effect has run
    provUnsub,          \* the cleanup the last effect run returned (an id, or NoId)
    seen,               \* per listener, what getState() gave it when it was last
                        \* called during the setter call in progress
    consumer,           \* a component that uses the store's hook: [phase, theme]
    header              \* the Header component, its window listeners and the
                        \* overflow-hidden class of the root element

vars == <<state, listeners, unsubs, stack, lastSet, toggles, dom, jar, life,
          initialPreferences, rendered, pending, effectPending, effectRuns, provUnsub,
          seen, consumer, header>>

storeVars == <<state, listeners, unsubs, stack, lastSet, toggles>>
pageVars == <<dom, jar>>
providerVars == <<life, initialPreferences, rendered, pending, effectPending,
                  effectRuns, provUnsub>>

NoId == <<"-", 0>>
NoFn == <<"-", 0>>
\* Every registration the bounds allow: clients' <<"C", n>>, the provider's <<"P", run>>.
AllIds == ({"C"} \X (1..MaxSubs)) \cup ({"P"} \X (1..MaxEffectRuns)) \cup {<<"H", 1>>}
NoPartial == [mode |-> NotGiven, preset |-> NotGiven]
\* No toggleTheme call since the last other call of a setter.
NoToggles == [n |-> 0, mode |-> NotGiven, preset |-> NotGiven, noCookies |-> FALSE]
\* No listener has been called during the setter call in progress.
NoSeen == [id \in AllIds |-> NoPartial]
\* The component that uses the store's hook has not rendered.
NoConsumer == [phase |-> "none", theme |-> NoPartial]
\* The Header is not on the page.
NoHeader ==
    [mounted |-> FALSE, hamburgerMenuIsOpen |-> FALSE, updates |-> <<>>,
     classEffect |-> FALSE, listenerEffect |-> FALSE, listening |-> FALSE,
     overflowHidden |-> FALSE]

\* --------------------------------------------------------------- frames
\* One shape for every frame; a frame uses the fields of its kind k:
\*   "pass"     one run of listeners.forEach in setState: the next index i and the
\*              length len forEach read when it began; partial, start (the ids
\*              registered when the call began), inv (the ids called so far), over
\*              (fields set again by nested calls) and reent (a listener called
\*              setState during the pass) record what the claims speak about;
\*   "listener" the provider's store listener: np is newPreferences, pc the next
\*              statement;
\*   "effect"   the provider's effect, waiting for its setTheme call to return;
\*   "contextHook", "storeHook"  a component that called usePreferences of the
\*              provider module or of the store module: threw says that the call
\*              raised an error, np is the preferences it returned otherwise;
\*   "getValueFromCookie"  a call with the argument name that returned ret;
\*   "loadThemePreferences"  a call that returned loaded;
\*   "saveThenLoad"  code that called saveThemePreferences(np) (pc = 1) and
\*              then loadThemePreferences(), which returned loaded (pc = 2).
Frame(k) ==
    [k |-> k, i |-> 0, len |-> 0, partial |-> NoPartial, start |-> {}, inv |-> <<>>,
     over |-> {}, reent |-> FALSE, np |-> DEFAULT_THEME_PREFERENCES, pc |-> 0,
     threw |-> FALSE, name |-> <<>>, ret |-> <<>>, loaded |-> NoPartial]

Ids(ls) == {ls[j].id : j \in 1..Len(ls)}

PassFrame(p, ls) ==
    [Frame("pass") EXCEPT !.len = Len(ls), !.partial = p, !.start = Ids(ls)]

Idle == stack = <<>>
Top == stack[Len(stack)]
Pop(stk) == SubSeq(stk, 1, Len(stk) - 1)
SetTop(stk, f) == [stk EXCEPT ![Len(stk)] = f]
Depth(stk) == Cardinality({j \in 1..Len(stk) : stk[j].k = "pass"})

IndexOfMissing(ls, fn) == 0

\* ---------------------------------------------------------------- store
\* indexOf(listener), 1-based, 0 for -1.
IndexOf(ls, fn) ==
    IF \E j \in 1..Len(ls) : ls[j].fn = fn
    THEN CHOOSE j \in 1..Len(ls) :
            ls[j].fn = fn /\ \A h \in 1..(j - 1) : ls[h].fn # fn
    ELSE 0

\* splice(index, 1)
Splice(ls, index) == SubSeq(ls, 1, index - 1) \o SubSeq(ls, index + 1, Len(ls))

UnsubscribeNothing(ls, fn) == ls

\* The function subscribe returns: remove the first entry that is listener.
Unsubscribe(ls, fn) ==
    LET index == IndexOf(ls, fn)
    IN  IF index > 0 THEN Splice(ls, index) ELSE ls

\* this.listeners.push(listener); id names this registration.
Subscribe(ls, id, fn) == Append(ls, [id |-> id, fn |-> fn])

Issue(u, id, fn) == [u EXCEPT ![id] = [issued |-> TRUE, fn |-> fn, calls |-> 0]]

Called(u, id) == [u EXCEPT ![id].calls = @ + 1]

SetStateStackGuarded(stk, p, ls) ==
    IF \E j \in 1..Len(stk) : stk[j].k = "pass"
    THEN [j \in 1..Len(stk) |->
             IF stk[j].k = "pass"
             THEN [stk[j] EXCEPT !.over = @ \cup Fields(p), !.reent = TRUE]
             ELSE stk[j]]
    ELSE Append(stk, PassFrame(p, ls))

SetStateStackQueued(stk, p, ls) ==
    <<PassFrame(p, ls)>> \o
    [j \in 1..Len(stk) |->
        IF stk[j].k = "pass"
        THEN [stk[j] EXCEPT !.over = @ \cup Fields(p), !.reent = TRUE]
        ELSE stk[j]]

\* setState, up to the start of forEach: the state is replaced and a pass over
\* the listeners begins.  stk is the caller's stack.
SetStateStack(stk, p, ls) ==
    Append([j \in 1..Len(stk) |->
               IF stk[j].k = "pass"
               THEN [stk[j] EXCEPT !.over = @ \cup Fields(p), !.reent = TRUE]
               ELSE stk[j]],
           PassFrame(p, ls))

\* What the model records of a call that sets the fields of p.
Recorded(l, p) ==
    [mode   |-> IF "mode" \in Fields(p) THEN p.mode ELSE l.mode,
     preset |-> IF "preset" \in Fields(p) THEN p.preset ELSE l.preset]

\* ls is the listener list at the call.
setState(stk, p, ls) ==
    /\ state' = Merge(state, p)
    /\ stack' = SetStateStack(stk, p, ls)
    /\ lastSet' = Recorded(lastSet, p)

\* ------------------------------------------------------------------ Init
\* The module is loaded and the layout rendered on the server for a browser
\* whose cookies are j.
InitJar(j) ==
    /\ state = DEFAULT_THEME_PREFERENCES
    /\ listeners = <<>>
    /\ unsubs = [id \in AllIds |-> [issued |-> FALSE, fn |-> NoFn, calls |-> 0]]
    /\ stack = <<>>
    /\ lastSet = DEFAULT_THEME_PREFERENCES
    /\ toggles = NoToggles
    /\ jar = j
    /\ initialPreferences = getServerThemePreferences(jar)
    /\ dom = Layout(initialPreferences)
    /\ life = "unmounted"
    /\ rendered = [preferences |-> initialPreferences, isHydrated |-> FALSE]
    /\ pending = rendered
    /\ effectPending = FALSE
    /\ effectRuns = 0
    /\ provUnsub = NoId
    /\ seen = NoSeen
    /\ consumer = NoConsumer
    /\ header = NoHeader

Init == \E m \in JarModes, p \in JarPresets : InitJar(Jar(m, p))

\* ------------------------------------------------- setters (any caller)
setThemeMode(mode) ==
    /\ Idle
    /\ setState(stack, [mode |-> mode, preset |-> NotGiven], listeners)
    /\ toggles' = NoToggles
    /\ UNCHANGED <<listeners, unsubs, pageVars, providerVars,
                   seen, consumer, header>>

setThemePreset(preset) ==
    /\ Idle
    /\ setState(stack, [mode |-> NotGiven, preset |-> preset], listeners)
    /\ toggles' = NoToggles
    /\ UNCHANGED <<listeners, unsubs, pageVars, providerVars,
                   seen, consumer, header>>

setTheme(preferences) ==
    /\ Idle
    /\ setState(stack, preferences, listeners)
    /\ toggles' = NoToggles
    /\ UNCHANGED <<listeners, unsubs, pageVars, providerVars,
                   seen, consumer, header>>

\* ------------------------------------------------- the notification pass
InPass == ~Idle /\ Top.k = "pass"
\* forEach is about to call the listener at index i (0-based) of the live array.
Calling == InPass /\ Top.i < Top.len /\ Top.i + 1 <= Len(listeners)
Callee == listeners[Top.i + 1]
\* The pass frame after the call at index i has been made.
Advanced == [Top EXCEPT !.i = @ + 1, !.inv = Append(@, Callee.id)]

\* forEach finds no element at index i (the array became shorter): no call.
PassSkip ==
    /\ InPass /\ Top.i < Top.len /\ Top.i + 1 > Len(listeners)
    /\ stack' = SetTop(stack, [Top EXCEPT !.i = @ + 1])
    /\ UNCHANGED <<state, listeners, unsubs, lastSet, toggles, pageVars, providerVars,
                   seen, consumer, header>>

\* forEach has visited every index: setState returns.
PassReturn ==
    /\ InPass /\ Top.i >= Top.len
    /\ stack' = Pop(stack)
    /\ seen' = IF Depth(stack) = 1 THEN NoSeen ELSE seen
    /\ UNCHANGED <<state, listeners, unsubs, lastSet, toggles, pageVars, providerVars,
                   consumer, header>>


\* ------------------------------------------------ the store's other clients
ClientIds == {id \in AllIds : id[1] = "C"}
IssuedClientIds == {id \in ClientIds : unsubs[id].issued}
\* The partials a client's listener passes when it calls setState itself.
ClientPartials ==
    {[mode |-> "dark", preset |-> NotGiven], [mode |-> NotGiven, preset |-> "tangerine"]}

\* A client calls subscribe(fn) from a handler of its own.
ClientSubscribe(fn) ==
    /\ Idle
    /\ Cardinality(IssuedClientIds) < MaxSubs
    /\ LET id == <<"C", Cardinality(IssuedClientIds) + 1>>
       IN  /\ listeners' = Subscribe(listeners, id, fn)
           /\ unsubs' = Issue(unsubs, id, fn)
    /\ UNCHANGED <<state, stack, lastSet, toggles, pageVars, providerVars,
                   seen, consumer, header>>

\* A client calls an unsubscribe function it holds from a handler of its own.
ClientUnsubscribe(id) ==
    /\ Idle
    /\ unsubs[id].calls < MaxUnsubCalls
    /\ listeners' = Unsubscribe(listeners, unsubs[id].fn)
    /\ unsubs' = Called(unsubs, id)
    /\ UNCHANGED <<state, stack, lastSet, toggles, pageVars, providerVars,
                   seen, consumer, header>>

CallingClient == Calling /\ Callee.fn \in ClientFns
\* A listener reads getState() when it is called.
Saw(id) == [seen EXCEPT ![id] = state]
\* The client's callback reads getState() first, or does not read the state.
CbReads == seen' = Saw(Callee.id)
CbReadsNothing == seen' = seen

\* A client's listener is called and only reads.
CbReturn ==
    /\ CallingClient
    /\ stack' = SetTop(stack, Advanced)
    /\ UNCHANGED <<state, listeners, unsubs, lastSet, toggles, pageVars, providerVars,
                   consumer, header>>

\* A client's listener is called and throws: neither forEach nor setState nor
\* the setters catch, so the error leaves every call in progress.
CbThrow ==
    /\ CallingClient
    /\ stack' = <<>>
    /\ seen' = NoSeen
    /\ UNCHANGED <<state, listeners, unsubs, lastSet, toggles, pageVars, providerVars,
                   consumer, header>>

\* A client's listener is called and calls an unsubscribe function.
CbUnsubscribe(id) ==
    /\ CallingClient
    /\ unsubs[id].calls < MaxUnsubCalls
    /\ listeners' = Unsubscribe(listeners, unsubs[id].fn)
    /\ unsubs' = Called(unsubs, id)
    /\ stack' = SetTop(stack, Advanced)
    /\ UNCHANGED <<state, lastSet, toggles, pageVars, providerVars,
                   consumer, header>>

\* A client's listener is called and subscribes a callback.
CbSubscribe(fn) ==
    /\ CallingClient
    /\ Cardinality(IssuedClientIds) < MaxSubs
    /\ LET id == <<"C", Cardinality(IssuedClientIds) + 1>>
       IN  /\ listeners' = Subscribe(listeners, id, fn)
           /\ unsubs' = Issue(unsubs, id, fn)
    /\ stack' = SetTop(stack, Advanced)
    /\ UNCHANGED <<state, lastSet, toggles, pageVars, providerVars,
                   consumer, header>>

\* A client's listener is called and calls setState itself.
CbSetState(p) ==
    /\ CallingClient
    /\ Depth(stack) < MaxDepth
    /\ setState(SetTop(stack, Advanced), p, listeners)
    /\ toggles' = NoToggles
    /\ UNCHANGED <<listeners, unsubs, pageVars, providerVars,
                   consumer, header>>

\* ------------------------------------------------------------ the provider
\* The statements of the provider's store listener after setPreferences.
ProviderListenerCookieFirst == <<"saveThemePreferences", "updateTheme">>

ProviderListenerRest == <<"updateTheme", "saveThemePreferences">>

\* The preferences the effect initialises the store with.
EffectDefaults == DEFAULT_THEME_PREFERENCES

EffectPreferences == initialPreferences

MountHydrated ==
    /\ Idle
    /\ life = "unmounted"
    /\ life' = "mounted"
    /\ rendered' = [preferences |-> initialPreferences, isHydrated |-> TRUE]
    /\ pending' = rendered'
    /\ effectPending' = TRUE
    /\ UNCHANGED <<storeVars, pageVars, initialPreferences, effectRuns, provUnsub,
                   seen, consumer, header>>

\* The first render and commit: the hidden <div>, the effect scheduled.
Mount ==
    /\ Idle
    /\ life = "unmounted"
    /\ life' = "mounted"
    /\ rendered' = [preferences |-> initialPreferences, isHydrated |-> FALSE]
    /\ pending' = rendered'
    /\ effectPending' = TRUE
    /\ UNCHANGED <<storeVars, pageVars, initialPreferences, effectRuns, provUnsub,
                   seen, consumer, header>>

\* The effect runs: the cleanup of the previous run (its unsubscribe), then
\* preferencesStore.setTheme(initialPreferences) up to the start of forEach.
EffectStart ==
    /\ Idle
    /\ life = "mounted"
    /\ effectPending
    /\ LET ls == IF provUnsub = NoId THEN listeners
                 ELSE Unsubscribe(listeners, unsubs[provUnsub].fn)
       IN  /\ listeners' = ls
           /\ setState(<<Frame("effect")>>, EffectPreferences, ls)
    /\ unsubs' = IF provUnsub = NoId THEN unsubs ELSE Called(unsubs, provUnsub)
    /\ toggles' = NoToggles
    /\ effectPending' = FALSE
    /\ effectRuns' = effectRuns + 1
    /\ UNCHANGED <<pageVars, life, initialPreferences, rendered, pending, provUnsub,
                   seen, consumer, header>>

\* setTheme has returned: setPreferences, updateTheme, setIsHydrated(true),
\* subscribe; the effect returns the unsubscribe function as its cleanup.
EffectFinish ==
    /\ ~Idle
    /\ Top.k = "effect"
    /\ pending' = [preferences |-> initialPreferences, isHydrated |-> TRUE]
    /\ dom' = updateTheme(dom, initialPreferences)
    /\ LET id == <<"P", effectRuns>>
       IN  /\ listeners' = Subscribe(listeners, id, id)
           /\ unsubs' = Issue(unsubs, id, id)
           /\ provUnsub' = id
    /\ stack' = Pop(stack)
    /\ UNCHANGED <<state, lastSet, toggles, jar, life, initialPreferences, rendered,
                   effectPending, effectRuns, seen, consumer, header>>

\* forEach calls the provider's listener: getState, setPreferences.
ProviderListenerCall ==
    /\ Calling
    /\ Callee.fn[1] = "P"
    /\ pending' = [pending EXCEPT !.preferences = state]
    /\ stack' = Append(SetTop(stack, Advanced),
                       [Frame("listener") EXCEPT !.np = state, !.pc = 1])
    /\ seen' = Saw(Callee.id)
    /\ UNCHANGED <<state, listeners, unsubs, lastSet, toggles, pageVars, life,
                   initialPreferences, rendered, effectPending, effectRuns, provUnsub,
                   consumer, header>>

\* The provider's listener runs its next statement and returns after the last.
ProviderListenerStep ==
    /\ ~Idle
    /\ Top.k = "listener"
    /\ LET stmt == ProviderListenerRest[Top.pc]
       IN  /\ dom' = IF stmt = "updateTheme" THEN updateTheme(dom, Top.np) ELSE dom
           /\ \E now \in Times :
                 jar' = IF stmt = "saveThemePreferences"
                        THEN saveThemePreferences(jar, Top.np, now) ELSE jar
    /\ stack' = IF Top.pc = Len(ProviderListenerRest) THEN Pop(stack)
                ELSE SetTop(stack, [Top EXCEPT !.pc = @ + 1])
    /\ UNCHANGED <<state, listeners, unsubs, lastSet, toggles, providerVars,
                   seen, consumer, header>>

\* React renders the provider again with the queued state updates.
Render ==
    /\ Idle
    /\ life = "mounted"
    /\ ~effectPending
    /\ rendered # pending
    /\ rendered' = pending
    /\ UNCHANGED <<storeVars, pageVars, life, initialPreferences, pending,
                   effectPending, effectRuns, provUnsub, seen, consumer, header>>

\* The layout is rendered again on the server from the request's cookies and
\* hands the provider a new initialPreferences object: the effect's dependency
\* changed, so its cleanup and the effect are scheduled.
Rerender ==
    /\ Idle
    /\ life = "mounted"
    /\ ~effectPending
    /\ effectRuns < MaxEffectRuns
    /\ initialPreferences' = getServerThemePreferences(jar)
    /\ rendered' = pending
    /\ effectPending' = TRUE
    /\ UNCHANGED <<storeVars, pageVars, life, pending, effectRuns, provUnsub,
                   seen, consumer, header>>

\* The provider is unmounted: React runs the cleanup of the effect's last run,
\* the unsubscribe function, and drops an effect that is still scheduled.
Unmount ==
    /\ Idle
    /\ life = "mounted"
    /\ life' = "disposed"
    /\ listeners' = IF provUnsub = NoId THEN listeners
                    ELSE Unsubscribe(listeners, unsubs[provUnsub].fn)
    /\ unsubs' = IF provUnsub = NoId THEN unsubs ELSE Called(unsubs, provUnsub)
    /\ provUnsub' = NoId
    /\ effectPending' = FALSE
    /\ UNCHANGED <<state, stack, lastSet, toggles, pageVars, initialPreferences,
                   rendered, pending, effectRuns, seen, consumer, header>>

\* The context is provided once isHydrated is rendered true.
Visible == life = "mounted" /\ rendered.isHydrated

\* A consumer calls toggleTheme of the rendered context value.
toggleTheme ==
    /\ Idle
    /\ Visible
    /\ ~effectPending
    /\ LET newMode == IF rendered.preferences.mode = "light" THEN "dark" ELSE "light"
       IN  setState(stack, [mode |-> newMode, preset |-> NotGiven], listeners)
    /\ toggles' = IF toggles.n = 1 THEN [toggles EXCEPT !.n = 2]
                  ELSE [n |-> 1, mode |-> state.mode, preset |-> state.preset,
                        noCookies |-> \A c \in DOMAIN jar.cookies :
                                         jar.cookies[c].value = Absent]
    /\ UNCHANGED <<listeners, unsubs, pageVars, providerVars,
                   seen, consumer, header>>

\* ------------------------------------------------------------- consumers
Hooks == {"contextHook", "storeHook"}

\* A component calls usePreferences of the provider module: useContext gives
\* undefined, and the hook throws, unless the component is rendered below
\* <PreferencesContext.Provider>, which the provider renders once isHydrated.
ContextHookCall ==
    /\ Idle
    /\ stack' = <<[Frame("contextHook") EXCEPT
                     !.threw = ~Visible,
                     !.np = IF Visible THEN rendered.preferences ELSE NoPartial]>>
    /\ UNCHANGED <<state, listeners, unsubs, lastSet, toggles, pageVars, providerVars,
                   seen, consumer, header>>

\* A component calls usePreferences of the store module for the first time:
\* useState(preferencesStore.getState()) is what it returns as theme.
StoreHookCall ==
    /\ Idle
    /\ stack' = <<[Frame("storeHook") EXCEPT !.np = state]>>
    /\ UNCHANGED <<state, listeners, unsubs, lastSet, toggles, pageVars, providerVars,
                   seen, consumer, header>>

\* The component's render ends: with the value, or with the error thrown.
HookReturn ==
    /\ ~Idle
    /\ Top.k \in Hooks
    /\ stack' = Pop(stack)
    /\ UNCHANGED <<state, listeners, unsubs, lastSet, toggles, pageVars, providerVars,
                   seen, consumer, header>>

\* A component that calls the store's usePreferences hook.  Its listener is
\* one registration of its own.
HookId == <<"H", 1>>

\* Its first render: React.useState(preferencesStore.getState()).
HookComponentRender ==
    /\ Idle
    /\ consumer.phase = "none"
    /\ consumer' = [phase |-> "rendered", theme |-> state]
    /\ UNCHANGED <<storeVars, pageVars, providerVars, seen, header>>

\* Its effect: preferencesStore.subscribe(() => setState(getState())).
HookComponentEffect ==
    /\ Idle
    /\ consumer.phase = "rendered"
    /\ consumer' = [consumer EXCEPT !.phase = "subscribed"]
    /\ listeners' = Subscribe(listeners, HookId, HookId)
    /\ unsubs' = Issue(unsubs, HookId, HookId)
    /\ UNCHANGED <<state, stack, lastSet, toggles, pageVars, providerVars,
                   seen, header>>

\* forEach calls the hook's listener: setState(preferencesStore.getState()).
HookListenerCall ==
    /\ Calling
    /\ Callee.fn = HookId
    /\ consumer' = [consumer EXCEPT !.theme = state]
    /\ seen' = Saw(Callee.id)
    /\ stack' = SetTop(stack, Advanced)
    /\ UNCHANGED <<state, listeners, unsubs, lastSet, toggles, pageVars, providerVars,
                   header>>

\* ------------------------------------------------------------- the Header
ClassListToggleNoForce(has, force) == ~has

\* classList.toggle(token, force): the token is there afterwards iff force.
ClassListToggle(has, force) == force

HeaderUpdates == {"toggle", "close"}

\* One queued state update applied: (open) => !open, or the value false.
ApplyUpdate(open, u) == IF u = "toggle" THEN ~open ELSE FALSE

RECURSIVE ApplyUpdates(_, _)
ApplyUpdates(open, us) ==
    IF us = <<>> THEN open ELSE ApplyUpdates(ApplyUpdate(open, Head(us)), Tail(us))

\* The Header is rendered for the first time: useState(false), both effects due.
HeaderMount ==
    /\ ~header.mounted
    /\ header' = [header EXCEPT !.mounted = TRUE, !.hamburgerMenuIsOpen = FALSE,
                                !.updates = <<>>, !.classEffect = TRUE,
                                !.listenerEffect = TRUE]
    /\ UNCHANGED <<storeVars, pageVars, providerVars, seen, consumer>>

\* The first effect: html.classList.toggle("overflow-hidden", hamburgerMenuIsOpen).
HeaderClassEffect ==
    /\ header.classEffect
    /\ header' = [header EXCEPT
                     !.overflowHidden = ClassListToggle(@, header.hamburgerMenuIsOpen),
                     !.classEffect = FALSE]
    /\ UNCHANGED <<storeVars, pageVars, providerVars, seen, consumer>>

\* The second effect, after the first: the window listeners are added.
HeaderListenerEffect ==
    /\ header.listenerEffect
    /\ ~header.classEffect
    /\ header' = [header EXCEPT !.listening = TRUE, !.listenerEffect = FALSE]
    /\ UNCHANGED <<storeVars, pageVars, providerVars, seen, consumer>>

\* A click on the menu button: setHamburgerMenuIsOpen((open) => !open).
HeaderClick ==
    /\ header.mounted
    /\ Len(header.updates) < MaxUpdates
    /\ header' = [header EXCEPT !.updates = Append(@, "toggle")]
    /\ UNCHANGED <<storeVars, pageVars, providerVars, seen, consumer>>

\* The window fires resize or orientationchange: closeHamburgerNavigation.
HeaderResize(event) ==
    /\ header.listening
    /\ Len(header.updates) < MaxUpdates
    /\ header' = [header EXCEPT !.updates = Append(@, "close")]
    /\ UNCHANGED <<storeVars, pageVars, providerVars, seen, consumer>>

\* React renders the Header with the queued updates, after the effects of the
\* render before; the first effect is due again iff its dependency changed.
HeaderRender ==
    /\ header.mounted
    /\ header.updates # <<>>
    /\ ~header.classEffect /\ ~header.listenerEffect
    /\ LET open == ApplyUpdates(header.hamburgerMenuIsOpen, header.updates)
       IN  header' = [header EXCEPT !.hamburgerMenuIsOpen = open,
                                   !.updates = <<>>,
                                   !.classEffect = (open # header.hamburgerMenuIsOpen)]
    /\ UNCHANGED <<storeVars, pageVars, providerVars, seen, consumer>>

\* The Header is unmounted: the second effect's cleanup removes the window
\* listeners; the first effect has no cleanup and the class stays as it is.
HeaderUnmount ==
    /\ header.mounted
    /\ header' = [NoHeader EXCEPT !.overflowHidden = header.overflowHidden]
    /\ UNCHANGED <<storeVars, pageVars, providerVars, seen, consumer>>

\* ---------------------------------------------------------- specifications
\* The page as the repository wires it: the provider is the store's only
\* subscriber; any code may call the store's setters.
Next ==
    \/ \E m \in ArgModes : setThemeMode(m)
    \/ \E p \in ArgPresets : setThemePreset(p)
    \/ \E m \in ArgModes, p \in ArgPresets : setTheme([mode |-> m, preset |-> p])
    \/ PassReturn
    \/ Mount
    \/ EffectStart
    \/ EffectFinish
    \/ ProviderListenerCall
    \/ ProviderListenerStep
    \/ Render
    \/ Rerender
    \/ Unmount
    \/ toggleTheme
    \/ ContextHookCall
    \/ StoreHookCall
    \/ HookReturn

Spec == Init /\ [][Next]_vars

\* The store as a module of its own, used by clients other than the provider:
\* they call the setters, subscribe and unsubscribe callbacks, and their
\* callbacks may unsubscribe, subscribe or call setState while being notified;
\* what they read of the state is not followed.
NextStore ==
    \/ \E m \in ArgModes : setThemeMode(m)
    \/ \E p \in ArgPresets : setThemePreset(p)
    \/ \E m \in ArgModes, p \in ArgPresets : setTheme([mode |-> m, preset |-> p])
    \/ PassSkip
    \/ PassReturn
    \/ \E fn \in ClientFns : ClientSubscribe(fn)
    \/ \E id \in IssuedClientIds : ClientUnsubscribe(id)
    \/ CbReturn /\ CbReadsNothing
    \/ CbThrow
    \/ \E id \in IssuedClientIds : CbUnsubscribe(id) /\ CbReadsNothing
    \/ \E fn \in ClientFns : CbSubscribe(fn) /\ CbReadsNothing
    \/ \E p \in ClientPartials : CbSetState(p) /\ CbReadsNothing

\* No theme cookies: the store reads none.
InitStore == Init /\ jar = Jar(Absent, Absent)

SpecStore == InitStore /\ [][NextStore]_vars

\* The cookie helpers on their own: code that calls them in a browser whose
\* document holds any cookies (or where there is no document at all).
CookieCalls == {"getValueFromCookie", "loadThemePreferences", "saveThenLoad"}

CallGetValueFromCookie(name) ==
    /\ Idle
    /\ stack' = <<[Frame("getValueFromCookie") EXCEPT
                     !.name = name, !.ret = getValueFromCookie(jar, name)]>>
    /\ UNCHANGED <<state, listeners, unsubs, lastSet, toggles, pageVars, providerVars,
                   seen, consumer, header>>

CallLoadThemePreferences ==
    /\ Idle
    /\ stack' = <<[Frame("loadThemePreferences") EXCEPT
                     !.loaded = loadThemePreferences(jar)]>>
    /\ UNCHANGED <<state, listeners, unsubs, lastSet, toggles, pageVars, providerVars,
                   seen, consumer, header>>

\* document.cookie = ... raises a ReferenceError where there is no document.
CallSaveThemePreferences(p, now) ==
    /\ Idle
    /\ jar.document
    /\ jar' = saveThemePreferences(jar, p, now)
    /\ stack' = <<[Frame("saveThenLoad") EXCEPT !.np = p, !.pc = 1]>>
    /\ UNCHANGED <<state, listeners, unsubs, lastSet, toggles, dom, providerVars,
                   seen, consumer, header>>

LoadAfterSave ==
    /\ ~Idle
    /\ Top.k = "saveThenLoad"
    /\ Top.pc = 1
    /\ stack' = SetTop(stack, [Top EXCEPT !.loaded = loadThemePreferences(jar),
                                          !.pc = 2])
    /\ UNCHANGED <<state, listeners, unsubs, lastSet, toggles, pageVars, providerVars,
                   seen, consumer, header>>

CookieReturn ==
    /\ ~Idle
    /\ Top.k \in CookieCalls
    /\ Top.k = "saveThenLoad" => Top.pc = 2
    /\ stack' = Pop(stack)
    /\ UNCHANGED <<state, listeners, unsubs, lastSet, toggles, pageVars, providerVars,
                   seen, consumer, header>>

NextCookie ==
    \/ \E name \in LookupNames : CallGetValueFromCookie(name)
    \/ CallLoadThemePreferences
    \/ CookieReturn

\* Any cookies: other cookies as any header lists them, theme cookies of any
\* value; with a document (a browser) or without one (the server).
CookieJars ==
    {[Jar(m, p) EXCEPT !.document = d, !.other = es] :
        m \in {Absent, "purple"}, p \in {Absent, "brutalist"},
        d \in BOOLEAN, es \in EntryLists}

InitCookie == \E j \in CookieJars : InitJar(j)

SpecCookie == InitCookie /\ [][NextCookie]_vars

\* Code that saves preferences and loads them again, in a browser whose
\* document holds any theme cookies and at most one cookie of another name.
NextSaveLoad ==
    \/ \E p \in ThemePreferences, now \in Times : CallSaveThemePreferences(p, now)
    \/ LoadAfterSave
    \/ CookieReturn

InitSaveLoad ==
    \E j \in {c \in CookieJars : c.document /\ Len(c.other) <= 1} : InitJar(j)

SpecSaveLoad == InitSaveLoad /\ [][NextSaveLoad]_vars

\* The page with the provider and one other client of the store, whose
\* callback reads the state and may call setState while being notified; it
\* subscribes from a handler of its own and never unsubscribes.
NextReentry ==
    \/ \E m \in ArgModes : setThemeMode(m)
    \/ \E p \in ArgPresets : setThemePreset(p)
    \/ \E m \in ArgModes, p \in ArgPresets : setTheme([mode |-> m, preset |-> p])
    \/ PassReturn
    \/ Mount
    \/ EffectStart
    \/ EffectFinish
    \/ ProviderListenerCall
    \/ ProviderListenerStep
    \/ Render
    \/ \E fn \in ClientFns : IssuedClientIds = {} /\ ClientSubscribe(fn)
    \/ CbReturn /\ CbReads
    \/ CbThrow
    \/ \E p \in ClientPartials : CbSetState(p) /\ CbReads

InitReentry == InitJar(Jar("dark", "brutalist"))

SpecReentry == InitReentry /\ [][NextReentry]_vars

\* The page with the provider and a component that uses the store's hook,
\* rendered and subscribed at any time relative to the provider's mount and
\* to calls of the setters.
NextHook ==
    \/ \E m \in ArgModes : setThemeMode(m)
    \/ \E p \in ArgPresets : setThemePreset(p)
    \/ \E m \in ArgModes, p \in ArgPresets : setTheme([mode |-> m, preset |-> p])
    \/ PassReturn
    \/ Mount
    \/ EffectStart
    \/ EffectFinish
    \/ ProviderListenerCall
    \/ ProviderListenerStep
    \/ Render
    \/ HookComponentRender
    \/ HookComponentEffect
    \/ HookListenerCall

InitHook == InitJar(Jar("dark", "brutalist"))

SpecHook == InitHook /\ [][NextHook]_vars

\* The page of the Header: mounts and unmounts, clicks on the menu button and
\* window events, with React's renders and effects in between.
NextHeader ==
    \/ HeaderMount
    \/ HeaderClassEffect
    \/ HeaderListenerEffect
    \/ HeaderClick
    \/ \E event \in {"resize", "orientationchange"} : HeaderResize(event)
    \/ HeaderRender
    \/ HeaderUnmount

InitHeader == InitJar(Jar(Absent, Absent))

SpecHeader == InitHeader /\ [][NextHeader]_vars


\* ------------------------------------------------------------------ claims
Count(seq, x) == Cardinality({j \in 1..Len(seq) : seq[j] = x})

\* The listener list without registration id.
WithoutRegistration(ls, id) ==
    LET Keep(r) == r.id # id
    IN  SelectSeq(ls, Keep)

\* The root element carries class dark iff the mode is dark, and its
\* data-theme-preset attribute is the preset.
DomShows(d, s) ==
    /\ ("dark" \in d.classes) <=> (s.mode = "dark")
    /\ d.preset = s.preset

\* The outermost setState call of a handler returns in this step.
OutermostReturn ==
    /\ InPass /\ Top.i >= Top.len /\ Depth(stack) = 1
    /\ stack' = Pop(stack)

\* A setState call that carries only the field f begins in this step.
BeginsWithOnly(f) ==
    /\ Len(stack') > Len(stack)
    /\ stack'[Len(stack')].k = "pass"
    /\ Fields(stack'[Len(stack')].partial) = {f}

\* C1: after any sequence of setter calls (nested ones included) getState()
\* holds, for each field on its own, the value of the last call that set the
\* field, or the starting value; a call that carries only mode leaves preset
\* as it was and a call that carries only preset leaves mode as it was.
C1_LastCallWinsPerField ==
    /\ [](state.mode = lastSet.mode /\ state.preset = lastSet.preset)
    /\ [][/\ BeginsWithOnly("mode") => state'.preset = state.preset
          /\ BeginsWithOnly("preset") => state'.mode = state.mode]_vars

\* C1 witness: a setThemeMode("dark") call is in progress and the preset an
\* earlier setThemePreset("tangerine") set is still there.
C1_Witness ==
    /\ InPass
    /\ Top.partial = [mode |-> "dark", preset |-> NotGiven]
    /\ state = [mode |-> "dark", preset |-> "tangerine"]

\* C2: when a setState call in which no listener re-entered setState is about
\* to return, every listener that was registered when it began and is still
\* registered has been called exactly once by it.
C2_EveryListenerCalledOnce ==
    (InPass /\ Top.i >= Top.len /\ ~Top.reent)
        => \A id \in Top.start \cap Ids(listeners) : Count(Top.inv, id) = 1

\* C3: forEach never calls a registration whose unsubscribe function has
\* already been invoked.
C3_NoCallAfterUnsubscribe ==
    Calling => unsubs[Callee.id].calls = 0

\* C4: whenever a listener is called, the state holds every field of the
\* partial that started the pass, unless a later setState call set the field.
C4_ListenerSeesWholePartial ==
    Calling => \A f \in Fields(Top.partial) \ Top.over : state[f] = Top.partial[f]

\* C4 witness: the second listener of a setTheme({dark, tangerine}) pass is
\* about to be called.
C4_Witness ==
    /\ Calling
    /\ Top.i = 1
    /\ Top.partial = [mode |-> "dark", preset |-> "tangerine"]
    /\ state = Top.partial

\* C5: the first call of an unsubscribe function removes the registration it
\* was returned for and nothing else; every later call changes nothing.
C5_UnsubscribeRemovesOwnRegistration ==
    [][\A id \in AllIds :
          unsubs'[id].calls > unsubs[id].calls
              => listeners' = IF unsubs[id].calls = 0
                              THEN WithoutRegistration(listeners, id)
                              ELSE listeners]_vars

\* C6: a cookie is written only with the state the store holds and the root
\* element already shows, and the root element is changed only to show the
\* state the store already holds: store, then DOM, then cookie.
C6_StoreThenDomThenCookie ==
    [][/\ jar' # jar =>
             /\ loadThemePreferences(jar') = state
             /\ DomShows(dom, state)
       /\ dom' # dom =>
             /\ state' = state
             /\ DomShows(dom', state)]_vars

\* C6 witness: with the provider ready, its listener has updated the root
\* element for a changed state and is about to write the cookies.
C6_Witness ==
    /\ ~Idle
    /\ Top.k = "listener"
    /\ ProviderListenerRest[Top.pc] = "saveThemePreferences"
    /\ Visible
    /\ DomShows(dom, state)
    /\ loadThemePreferences(jar) # state

\* C7: whenever the provider is ready and no handler is in progress, the root
\* element shows the store's state.
C7_DomReflectsStore ==
    (Visible /\ Idle) => DomShows(dom, state)

\* C7 witness: ready and at rest with a state that differs from the initial
\* preferences in both fields.
C7_Witness ==
    /\ Visible
    /\ Idle
    /\ state = [mode |-> "dark", preset |-> "tangerine"]
    /\ initialPreferences = DEFAULT_THEME_PREFERENCES
    /\ DomShows(dom, state)

\* C8: when a setter call made while the provider is ready returns, the
\* cookies hold the store's state: loadThemePreferences() equals getState().
C8_EveryChangePersisted ==
    [][(OutermostReturn /\ Visible) => loadThemePreferences(jar') = state']_vars

\* The hydration state of the provider.
Phase ==
    IF life = "unmounted" THEN "uninitialized"
    ELSE IF rendered.isHydrated THEN "ready" ELSE "hydrating"

\* C9: the hydration state starts uninitialized and only moves uninitialized
\* -> hydrating -> ready; it becomes ready only when the effect has run to
\* its end, and nothing leads out of ready.
C9_HydrationOnlyForward ==
    /\ Phase = "uninitialized"
    /\ [][/\ Phase' # Phase =>
                <<Phase, Phase'>> \in {<<"uninitialized", "hydrating">>,
                                      <<"hydrating", "ready">>}
          /\ (Phase' = "ready" /\ Phase # "ready") =>
                effectRuns >= 1 /\ Idle /\ provUnsub # NoId]_vars

\* C9 witness: the provider is still ready after its effect ran again.
C9_Witness ==
    /\ Phase = "ready"
    /\ effectRuns >= 2
    /\ Idle

\* C10: the effect declares the provider hydrated only with the store holding
\* initialPreferences and the root element showing them; whenever the
\* children are visible the effect has run, and at rest the root element
\* shows the store's state.
C10_VisibleOnlyAfterInit ==
    /\ [](Visible => /\ effectRuns >= 1
                     /\ Idle => DomShows(dom, state))
    /\ [][(~pending.isHydrated /\ pending'.isHydrated) =>
              /\ state' = initialPreferences'
              /\ DomShows(dom', state')]_vars

\* C10 witness: children visible, store and root element hold the
\* preferences the server resolved from the cookies dark and brutalist.
C10_Witness ==
    /\ Visible
    /\ Idle
    /\ initialPreferences = [mode |-> "dark", preset |-> "brutalist"]
    /\ state = initialPreferences
    /\ DomShows(dom, state)

\* C11: a component that reads the preferences through usePreferences while no
\* provider is ready (none mounted, or the provider still renders its hidden
\* first pass) gets an error and never a preferences value.
C11_NoValueBeforeReady ==
    (~Idle /\ Top.k \in Hooks /\ ~Visible) => Top.threw

\* C12: after two toggleTheme calls in succession the store's mode is the one
\* it had before the first, whatever mode of the type that was; the preset is
\* after each of the calls the one it was before the first.
C12_ToggleTwiceRestores ==
    (Idle /\ toggles.mode \in ThemeModes) =>
        /\ toggles.n = 2 => state.mode = toggles.mode
        /\ toggles.n >= 1 => state.preset = toggles.preset

\* The value of the first entry of es whose name is name, or null.
FirstNamed(es, name) ==
    IF \E i \in 1..Len(es) : es[i].name = name
    THEN es[CHOOSE i \in 1..Len(es) :
                /\ es[i].name = name
                /\ \A h \in 1..(i - 1) : es[h].name # name].value
    ELSE Chars(Null)

\* "a=1; theme-mode=dark;theme-preset=tangerine"
ExampleHeader ==
    <<"a", "=", "1", ";", " ">> \o Chars("theme-mode") \o <<"=">> \o Chars("dark")
    \o <<";">> \o Chars("theme-preset") \o <<"=">> \o Chars("tangerine")

\* The jar holds neither theme cookie.
NoThemeCookies == \A c \in DOMAIN jar.cookies : jar.cookies[c].value = Absent

\* The root element as the cookies dark and brutalist ask for it.
DarkBrutalist == "dark" \in dom.classes /\ dom.preset = "brutalist"

\* C14: when the request's cookies are dark and brutalist, the root element
\* has the class dark and data-theme-preset brutalist in the server's markup,
\* and it keeps them through the mount; only the provider's store listener,
\* which runs when a setter is called, takes them away.
C14_NoFlashBeforeInteraction ==
    /\ []((effectRuns = 0 /\ initialPreferences = [mode |-> "dark", preset |-> "brutalist"])
            => DarkBrutalist)
    /\ [][(/\ initialPreferences = [mode |-> "dark", preset |-> "brutalist"]
            /\ DarkBrutalist
            /\ ~DarkBrutalist') => (~Idle /\ Top.k = "listener")]_vars

\* C14 witness: mounted and visible, no setter called yet, cookies dark and
\* brutalist.
C14_Witness ==
    /\ Visible /\ Idle
    /\ effectRuns = 1
    /\ lastSet = [mode |-> "dark", preset |-> "brutalist"]
    /\ jar = Jar("dark", "brutalist")
    /\ DarkBrutalist

\* C15: without theme cookies the session starts from {light, default}; when
\* the first toggleTheme call, made while the provider is ready, has returned,
\* the store's mode is dark and the cookie theme-mode holds dark with path /
\* and an expiry 365 days (365 * 86400 seconds) after the time of the write.
C15_FirstToggleWritesDarkCookie ==
    /\ NoThemeCookies =>
          /\ initialPreferences = DEFAULT_THEME_PREFERENCES
          /\ (Visible /\ Idle) => state = DEFAULT_THEME_PREFERENCES
    /\ (Idle /\ toggles.n = 1 /\ toggles.noCookies) =>
          /\ state.mode = "dark"
          /\ jar.cookies["theme-mode"].value = "dark"
          /\ jar.cookies["theme-mode"].path = "/"
          /\ jar.cookies["theme-mode"].created \in Times
          /\ jar.cookies["theme-mode"].expires =
                jar.cookies["theme-mode"].created + 365 * 86400

C15_Witness ==
    /\ Visible /\ Idle
    /\ toggles.n = 1 /\ toggles.noCookies
    /\ state = [mode |-> "dark", preset |-> "default"]
    /\ jar.cookies["theme-mode"].value = "dark"
    /\ jar.cookies["theme-mode"].created = MaxNow

\* C16: once the provider's effect has initialised the store, the store's mode
\* and preset are values of their enumerations, whatever cookies the request
\* carried (the setters are only called with values of the enumerations).
C16_StoreHoldsEnumValues ==
    (effectRuns >= 1 /\ Idle) =>
        /\ state.mode \in ThemeModes
        /\ state.preset \in ThemePresets

\* What the resolution makes of a cookie value v with default d.
CookieOrDefault(v, d) == IF v \in {Absent, ""} THEN d ELSE v

FromCookies(j) ==
    [mode   |-> CookieOrDefault(j.cookies["theme-mode"].value, "light"),
     preset |-> CookieOrDefault(j.cookies["theme-preset"].value, "default")]

\* The provider's effect has called setTheme and not yet returned.
InEffect == ~Idle /\ stack[1].k = "effect"

\* C19 (as the code has it): a cookie value is taken over unchanged, in the
\* enumeration or not, by the server's resolution, by loadThemePreferences,
\* by the provider's initial preferences and by the store at the mount; an
\* absent cookie and a cookie with the empty value are replaced by the default.
C19_CookieValueCarriedUnlessAbsentOrEmpty ==
    /\ loadThemePreferences(jar) = FromCookies(jar)
    /\ effectRuns = 0 =>
          /\ initialPreferences = FromCookies(jar)
          /\ rendered.preferences = initialPreferences
    /\ InEffect => state = initialPreferences

C19_Witness ==
    /\ InEffect
    /\ effectRuns = 1
    /\ jar.cookies["theme-mode"].value = "purple"
    /\ state = [mode |-> "purple", preset |-> "brutalist"]

\* C19 (as stated): the same, and only an absent cookie is replaced by the
\* default.
C19_OnlyAbsentCookieReplaced ==
    /\ effectRuns = 0 =>
          /\ \A c \in DOMAIN jar.cookies :
                jar.cookies[c].value # Absent =>
                    jar.cookies[c].value \in {initialPreferences.mode,
                                              initialPreferences.preset}
          /\ rendered.preferences = initialPreferences
    /\ InEffect => state = initialPreferences

\* C18: no operation of the store raises an error, whatever its arguments and
\* whatever listeners are registered: a setter call that has begun ends only
\* by returning after forEach has gone through the listeners.
C18_NoOperationRaises ==
    [][(InPass /\ Idle') => (Top.i >= Top.len /\ Len(stack) = 1)]_vars

C17_FirstEntryOfThatName ==
    /\ (~Idle /\ Top.k = "getValueFromCookie" /\ jar.document) =>
           Top.ret = FirstNamed(jar.other \o OwnEntries(jar), Top.name)
    /\ ScanCookie(ExampleHeader, Chars("theme-mode")) = Chars("dark")
    /\ ScanCookie(ExampleHeader, Chars("theme-preset")) = Chars("tangerine")

C17_Witness ==
    /\ ~Idle /\ Top.k = "getValueFromCookie" /\ jar.document
    /\ Len(jar.other) = 2
    /\ jar.other[1].name = <<"a", "b">> /\ jar.other[2].name = <<"a">>
    /\ jar.other[2].spaces = MaxSpaces /\ jar.other[2].value = <<>>
    /\ Top.name = <<"a">> /\ Top.ret = <<>>

\* C20: where there is no document, getValueFromCookie returns null for every
\* name and loadThemePreferences returns {light, default}.
C20_NoDocument ==
    (~Idle /\ ~jar.document) =>
        /\ Top.k = "getValueFromCookie" => Top.ret = Chars(Null)
        /\ Top.k = "loadThemePreferences" => Top.loaded = DEFAULT_THEME_PREFERENCES

C20_Witness ==
    /\ ~Idle /\ ~jar.document
    /\ Top.k = "loadThemePreferences"
    /\ jar.cookies["theme-mode"].value = "purple"
    /\ Top.loaded = DEFAULT_THEME_PREFERENCES

\* The layout is rendered on the server in this step (a later request).
ServerRender == life = "mounted" /\ ~effectPending /\ effectPending'

\* C21 (as the code has it): the server resolves each field from its own
\* cookie alone: the cookie's value when the cookie is present with a non-empty
\* value, else light (mode) or default (preset); the root element is rendered
\* with the resolved mode as its class and the resolved preset as its attribute.
C21_EachFieldFromItsOwnCookie ==
    /\ [](life = "unmounted" =>
            /\ \A m1, m2 \in JarModes, p1, p2 \in JarPresets :
                  /\ getServerThemePreferences(Jar(m1, p1)).mode =
                       getServerThemePreferences(Jar(m1, p2)).mode
                  /\ getServerThemePreferences(Jar(m1, p1)).preset =
                       getServerThemePreferences(Jar(m2, p1)).preset
            /\ initialPreferences.mode =
                 CookieOrDefault(jar.cookies["theme-mode"].value, "light")
            /\ initialPreferences.preset =
                 CookieOrDefault(jar.cookies["theme-preset"].value, "default")
            /\ dom = [classes |-> {initialPreferences.mode},
                      preset  |-> initialPreferences.preset])
    /\ [][ServerRender =>
            /\ initialPreferences'.mode =
                 CookieOrDefault(jar.cookies["theme-mode"].value, "light")
            /\ initialPreferences'.preset =
                 CookieOrDefault(jar.cookies["theme-preset"].value, "default")]_vars

\* C21 witness: only the preset cookie is present; the mode is the default,
\* the preset the cookie's.
C21_Witness ==
    /\ life = "unmounted"
    /\ jar = Jar(Absent, "brutalist")
    /\ initialPreferences = [mode |-> "light", preset |-> "brutalist"]
    /\ dom = [classes |-> {"light"}, preset |-> "brutalist"]

\* C21 (as stated): the same with the cookie's value whenever the cookie is
\* present.
C21_PresentCookieIsTheValue ==
    life = "unmounted" =>
        /\ initialPreferences.mode =
             IF jar.cookies["theme-mode"].value = Absent THEN "light"
             ELSE jar.cookies["theme-mode"].value
        /\ initialPreferences.preset =
             IF jar.cookies["theme-preset"].value = Absent THEN "default"
             ELSE jar.cookies["theme-preset"].value
        /\ dom = [classes |-> {initialPreferences.mode},
                  preset  |-> initialPreferences.preset]

\* The registrations in the store's list that the provider made.
ProviderListeners == {j \in 1..Len(listeners) : listeners[j].id[1] = "P"}

C23_NestedPassRunsFirst ==
    [][/\ (~Idle /\ Top.k = "pass" /\ Len(stack') = Len(stack) + 1) =>
             /\ Top'.k = "pass" /\ Top'.i = 0 /\ Top'.inv = <<>>
             /\ Top'.len = Len(listeners)
             /\ state' = Merge(state, Top'.partial)
             /\ stack'[Len(stack)].i = Top.i + 1
       /\ \A j \in 1..(Len(stack) - 1) :
             j <= Len(stack') =>
                /\ stack'[j].i = stack[j].i
                /\ stack'[j].inv = stack[j].inv
       /\ (Len(stack) > 1 /\ Len(stack') = Len(stack) - 1) =>
             /\ Top.i = Top.len
             /\ Top'.i = stack[Len(stack')].i
             /\ Top'.inv = stack[Len(stack')].inv]_vars

\* C23 witness: the first listener of two re-entered, the nested pass has
\* returned and the outer pass is about to call the second listener.
C23_Witness ==
    /\ Len(stack) = 1 /\ Top.k = "pass"
    /\ Top.reent
    /\ Top.i = 1 /\ Top.len = 2
    /\ Len(listeners) = 2

\* The theme cookies hold the preferences s.
CookiesHold(j, s) ==
    /\ j.cookies["theme-mode"].value = s.mode
    /\ j.cookies["theme-preset"].value = s.preset

\* C24: when the outermost setState call returns, however often listeners
\* called setState meanwhile, every registered listener's last reading of
\* getState() is the state the store then holds, and with the provider
\* subscribed its snapshot, the root element and the cookies are that state.
C24_ReentryConverges ==
    [][OutermostReturn =>
          /\ \A j \in 1..Len(listeners) : seen[listeners[j].id] = state
          /\ ProviderListeners # {} =>
                /\ pending.preferences = state
                /\ DomShows(dom, state)
                /\ CookiesHold(jar, state)]_vars

\* C24 witness: the provider's listener is first of two, the second called
\* setState during the outermost pass and overwrote a field, and that pass is
\* about to return.
C24_Witness ==
    /\ InPass /\ Top.i >= Top.len /\ Depth(stack) = 1
    /\ Top.reent /\ Top.over # {}
    /\ Len(listeners) = 2
    /\ listeners[1].id[1] = "P"
    /\ state # Merge(DEFAULT_THEME_PREFERENCES, Top.partial)

\* C25: whenever a consumer can call toggleTheme (the provider is ready and no
\* handler or effect is in progress or due), the preferences of the rendered
\* context value are the store's state.
C25_SnapshotIsStoreState ==
    (Idle /\ Visible /\ ~effectPending) => rendered.preferences = state

\* C26: once the provider is ready, the store's state changes only in a step
\* that is a call of a setter or of toggleTheme by a consumer (a handler that
\* starts with setState), never in a run of the provider's effect.
C26_OnlyConsumersChangeStore ==
    [][(Visible /\ state' # state) => stack'[1].k = "pass"]_vars

\* C27: once the subscription effect of a component that uses the store's
\* hook has run and no handler is in progress, the theme the hook returns is
\* the store's state.
C27_HookShowsStoreState ==
    (consumer.phase = "subscribed" /\ Idle) => consumer.theme = state

\* C28: no step of a run of the provider's effect (cleanup, store
\* initialisation, DOM update, subscription) changes the cookie jar, and the
\* jar changes only in a step of the provider's listener, called by a setter
\* call made while the provider is subscribed.
C28_HydrationWritesNoCookie ==
    [][/\ (InEffect \/ InEffect') => jar' = jar
       /\ jar' # jar =>
             /\ Top.k = "listener"
             /\ stack[1].k = "pass"
             /\ provUnsub # NoId]_vars

\* C28 witness: the request had no theme cookies; the effect has run twice,
\* the provider is subscribed, and the jar still holds no theme cookie.
C28_Witness ==
    /\ Idle /\ life = "mounted"
    /\ effectRuns = 2
    /\ ProviderListeners # {}
    /\ NoThemeCookies

MenuOpen == ApplyUpdates(header.hamburgerMenuIsOpen, header.updates)

\* The Header is mounted, no update is queued and no effect is due.
HeaderSettled ==
    /\ header.mounted
    /\ header.updates = <<>>
    /\ ~header.classEffect /\ ~header.listenerEffect

\* C30: with the Header settled the root element has the class
\* overflow-hidden iff the menu is open; a click flips the menu, a resize or
\* orientationchange leaves it closed, and a render shows the menu so reached.
C30_OverflowHiddenIffMenuOpen ==
    /\ [](HeaderSettled => (header.overflowHidden <=> header.hamburgerMenuIsOpen))
    /\ [][/\ header'.updates = Append(header.updates, "toggle") =>
                MenuOpen' = ~MenuOpen
          /\ header'.updates = Append(header.updates, "close") =>
                ~MenuOpen'
          /\ (header.updates # <<>> /\ header'.updates = <<>> /\ header'.mounted) =>
                header'.hamburgerMenuIsOpen = MenuOpen]_vars

\* C30 witness: the Header is settled with the menu open and the class set,
\* and its window listeners are installed.
C30_Witness ==
    /\ HeaderSettled
    /\ header.listening
    /\ header.hamburgerMenuIsOpen
    /\ header.overflowHidden
====
